---- MODULE Spec2Model ----
(***************************************************************************)
(* Sokoban (src/sokoban.go): the level decoder decompressLevel, the move   *)
(* function handleMove, the box count nBoxesLeft and the per-tick command  *)
(* handler Game.Update with its level navigation, undo-by-replay, move and *)
(* win-check branches.                                                     *)
(*                                                                         *)
(* Go slices are 0-indexed; the sequences below are 1-indexed, so level[k] *)
(* of the source is level[k+1] here, and likewise bits and moves.  The     *)
(* grid keeps the source's indices: grid[x][y] with x in 0..w-1 and y in   *)
(* 0..h-1.  The rendering fields of Level (zfactor, sx, sy) are floating   *)
(* point values read only by Draw and are left out.                        *)
(***************************************************************************)
EXTENDS Integers, Sequences, FiniteSets

\* ---- program constants (const block, src/sokoban.go:41-62) ----
LEVEL_MAX == 62

EMPTY == 89
WALL == 98
BOX == 6
PLACED_BOX == 9
GOAL == 102

PLAYERUP == 55
PLAYERDN == 52
PLAYERRI == 78
PLAYERLE == 81

\* UP byte = iota is the 13th ConstSpec of the block, so iota is 12 there.
UP == 12
RIGHT == 13
DOWN == 14
LEFT == 15

\* ---- bounds of the model ----
\* longest move history explored
MaxMoves == 3
\* most commands that fire in one tick
MaxFired == 2

Tiles == {EMPTY, WALL, BOX, PLACED_BOX, GOAL}
Directions == {UP, RIGHT, DOWN, LEFT}
Commands == {"NextLevel", "PreviousLevel", "Undo", "Right", "Left", "Up", "Down"}
MoveCommands == {"Right", "Left", "Up", "Down"}

\* ---- level corpus ----
\* The table `levels` is indexed by currentLevelNumber in 0..LEVEL_MAX.  Its
\* data file is not part of the sources at hand; the buffers below are small
\* levels in the packed format documented at src/sokoban.go:407-423.
\*
\*   ######      #######      #####      #######       $.
\*   #.@* #      #.*@$*#      #@$.#      #  $  #      @$
\*   # $  #      #  $  #      #####      #  *  #
\*   ######      #  $  #                 #**@ .#
\*               #######                 #  $  #
\*                                       #######
\*   BufRoom     BufRow       BufOne     BufStack     BufOpen (no wall border)
BufRoom == <<6, 4, 213, 131, 136, 66, 131, 80, 2, 1>>
BufRow == <<7, 5, 229, 156, 39, 134, 5, 4, 48, 40, 57, 3, 1>>
BufOne == <<5, 3, 196, 38, 196, 1, 1>>
BufStack == <<7, 6, 230, 5, 4, 48, 60, 16, 199, 129, 161, 129, 65, 200, 3, 3>>
BufOpen == <<3, 2, 9, 130, 0, 0, 1>>

\*   #####
\*   #   #      BufPair: Right pushes the box home and leaves no Box cell;
\*   # * #      Up, from there, pushes the placed box off its goal
\*   #@$.#
\*   #####
BufPair == <<5, 5, 198, 72, 67, 136, 66, 108, 64, 1, 3>>

\* which buffer each table holds at index n
levelsBordered ==
  [n \in 0..LEVEL_MAX |->
     IF n % 4 = 0 THEN "room" ELSE IF n % 4 = 1 THEN "row"
     ELSE IF n % 4 = 2 THEN "one" ELSE "stack"]

levelsOpen ==
  [n \in 0..LEVEL_MAX |->
     IF n % 4 = 0 THEN "open" ELSE IF n % 4 = 1 THEN "row"
     ELSE IF n % 4 = 2 THEN "one" ELSE "stack"]

\* a table whose level 0 is BufPair
levelsPair == [n \in 0..LEVEL_MAX |-> IF n = 0 THEN "pair" ELSE levelsBordered[n]]

Buffers == [room |-> BufRoom, row |-> BufRow, one |-> BufOne, stack |-> BufStack,
            open |-> BufOpen, pair |-> BufPair]

\* a table whose level 1 is a buffer under test, named "given"
levelsGiven == [n \in 0..LEVEL_MAX |-> IF n = 1 THEN "given" ELSE levelsBordered[n]]

\* ---- buffers under test ----
\* A level description: dimensions, (run length, tile) pairs and the player
\* position.  EncodeLevel packs it in the format of src/sokoban.go:407-423:
\* the pairs as a bitstream, most significant bit first, filled up with zero
\* bits to a whole number of bytes.
\* most pairs in a description
MaxRuns == 3
\* highest level index visited when a buffer is under test
MaxLevel == 2

RunSet == {<<1, BOX>>, <<3, WALL>>, <<4, GOAL>>, <<6, PLACED_BOX>>, <<9, EMPTY>>}
DimSet == {<<0, 2>>, <<2, 0>>, <<1, 1>>, <<2, 1>>, <<2, 2>>, <<3, 2>>, <<2, 3>>}
PlayerSet == {<<0, 0>>, <<1, 2>>}

RECURSIVE RunSeqs(_)
RunSeqs(n) ==
  IF n = 0 THEN {<<>>}
  ELSE RunSeqs(n - 1) \cup {Append(rs, r) : rs \in RunSeqs(n - 1), r \in RunSet}

Descs ==
  {[w |-> d[1], h |-> d[2], runs |-> rs, px |-> p[1], py |-> p[2]] :
     d \in DimSet, rs \in RunSeqs(MaxRuns), p \in PlayerSet}
NoDesc == [w |-> 0, h |-> 0, runs |-> <<>>, px |-> 0, py |-> 0]

\* counter: 0 for one symbol, 1 D3 D2 D1 for 2+D3*4+D2*2+D1 symbols
CounterBits(c) ==
  IF c = 1 THEN <<FALSE>>
  ELSE <<TRUE, ((c - 2) \div 4) % 2 = 1, ((c - 2) \div 2) % 2 = 1, (c - 2) % 2 = 1>>

\* char: 00 empty, 01 wall, 10 box, 111 box in place, 110 goal
CharBits(t) ==
  IF t = EMPTY THEN <<FALSE, FALSE>>
  ELSE IF t = WALL THEN <<FALSE, TRUE>>
  ELSE IF t = BOX THEN <<TRUE, FALSE>>
  ELSE IF t = PLACED_BOX THEN <<TRUE, TRUE, TRUE>>
  ELSE <<TRUE, TRUE, FALSE>>

RECURSIVE ElementBits(_)
ElementBits(runs) ==
  IF runs = <<>> THEN <<>>
  ELSE CounterBits(Head(runs)[1]) \o CharBits(Head(runs)[2]) \o ElementBits(Tail(runs))

\* the zero bits that fill the last byte
PadLen(n) == (8 - (n % 8)) % 8

\* the byte made of bits[k+1 .. k+8], bits beyond the end read as zero
PackByte(bits, k) ==
  LET b(j) == IF k + j <= Len(bits) /\ bits[k + j] THEN 1 ELSE 0 IN
  128 * b(1) + 64 * b(2) + 32 * b(3) + 16 * b(4) + 8 * b(5) + 4 * b(6) + 2 * b(7) + b(8)

PackBits(bits) ==
  [k \in 1..((Len(bits) + PadLen(Len(bits))) \div 8) |-> PackByte(bits, 8 * (k - 1))]

EncodeLevel(d) == <<d.w, d.h>> \o PackBits(ElementBits(d.runs)) \o <<d.px, d.py>>

\* the program built with one of the tables
CorpusBordered == [kind |-> "bordered", desc |-> NoDesc, buf |-> <<>>]
CorpusOpen == [kind |-> "open", desc |-> NoDesc, buf |-> <<>>]
CorpusPair == [kind |-> "pair", desc |-> NoDesc, buf |-> <<>>]
CorpusGiven(d) == [kind |-> "given", desc |-> d, buf |-> EncodeLevel(d)]

VARIABLES
  corpus,              \* which level table the program was built with, and
                       \* the buffer under test if it holds one
  currentLevelNumber,  \* global currentLevelNumber
  curLev,              \* global curLev (w, h, px, py, psprite, grid)
  moves,               \* global moves, the stack of played moves
  panicked,            \* TRUE once a Go runtime panic has ended the process
  fired,               \* the commands the input layer reported in the last tick
  trail                \* history variable: curLev after 0, 1, 2, ... move
                       \* attempts since the level was (re)loaded

vars == <<corpus, currentLevelNumber, curLev, moves, panicked, fired, trail>>

\* levels[n] of the source is Buffer(levels[n])
levels == IF corpus.kind = "open" THEN levelsOpen
          ELSE IF corpus.kind = "given" THEN levelsGiven
          ELSE IF corpus.kind = "pair" THEN levelsPair ELSE levelsBordered
Buffer(name) == IF name = "given" THEN corpus.buf ELSE Buffers[name]

\* ---- decompressLevel ----
Pow2(j) == IF j = 0 THEN 1 ELSE IF j = 1 THEN 2 ELSE IF j = 2 THEN 4
           ELSE IF j = 3 THEN 8 ELSE IF j = 4 THEN 16 ELSE IF j = 5 THEN 32
           ELSE IF j = 6 THEN 64 ELSE 128

\* the inner loop j = 7 .. 0 over one byte: most significant bit first
ByteBits(b) == [k \in 1..8 |-> ((b \div Pow2(8 - k)) % 2) = 1]

\* the outer loop i = 2 .. length-3 (0-indexed) over the body bytes
RECURSIVE LevelBits(_, _)
LevelBits(level, i) ==
  IF i > Len(level) - 2 THEN <<>>
  ELSE ByteBits(level[i]) \o LevelBits(level, i + 1)

\* v evaluated once and handed to F: a local variable holding a value
Bind(v, F(_)) == CHOOSE r \in {F(x) : x \in {v}} : TRUE

\* A read of bits[k] (0-indexed) with k >= len(bits) is a Go
\* index-out-of-range panic.
\* "extract counter": the run length read at bit position i
ReadCounter(bits, i) ==
  IF i >= Len(bits) THEN [panic |-> TRUE, counter |-> 0, i |-> i]
  ELSE IF ~bits[i + 1] THEN [panic |-> FALSE, counter |-> 1, i |-> i + 1]
  ELSE IF i + 3 >= Len(bits) THEN [panic |-> TRUE, counter |-> 2, i |-> i]
  ELSE [panic |-> FALSE,
        counter |-> 2 + (IF bits[i + 2] THEN 4 ELSE 0)
                      + (IF bits[i + 3] THEN 2 ELSE 0)
                      + (IF bits[i + 4] THEN 1 ELSE 0),
        i |-> i + 4]

\* "extract object": the tile read at bit position i
ReadObject(bits, i) ==
  IF i >= Len(bits) THEN [panic |-> TRUE, object |-> 0, i |-> i]
  ELSE IF ~bits[i + 1] THEN
    IF i + 1 >= Len(bits) THEN [panic |-> TRUE, object |-> 0, i |-> i]
    ELSE [panic |-> FALSE, object |-> IF ~bits[i + 2] THEN EMPTY ELSE WALL, i |-> i + 2]
  ELSE
    IF i + 1 >= Len(bits) THEN [panic |-> TRUE, object |-> 0, i |-> i]
    ELSE IF ~bits[i + 2] THEN [panic |-> FALSE, object |-> BOX, i |-> i + 2]
    ELSE IF i + 2 >= Len(bits) THEN [panic |-> TRUE, object |-> 0, i |-> i]
    ELSE [panic |-> FALSE, object |-> IF bits[i + 3] THEN PLACED_BOX ELSE GOAL,
          i |-> i + 3]

\* "add in grid object": counter copies of object appended to grid
Emit(grid, object, counter) == grid \o [k \in 1..counter |-> object]

\* a loop that stops as soon as at least w*h tiles are emitted
RECURSIVE DecodeLoopAtLeast(_, _, _, _)
DecodeLoopAtLeast(bits, i, grid, total) ==
  IF Len(grid) >= total THEN [panic |-> FALSE, grid |-> grid]
  ELSE Bind(ReadCounter(bits, i), LAMBDA c :
         IF c.panic THEN [panic |-> TRUE, grid |-> grid]
         ELSE Bind(ReadObject(bits, c.i), LAMBDA o :
                IF o.panic THEN [panic |-> TRUE, grid |-> grid]
                ELSE Bind(Emit(grid, o.object, c.counter), LAMBDA g :
                       DecodeLoopAtLeast(bits, o.i, g, total))))

\* the loop `for len(grid) != int(l.w) * int(l.h)` from bit position i
RECURSIVE DecodeLoop(_, _, _, _)
DecodeLoop(bits, i, grid, total) ==
  IF Len(grid) = total THEN [panic |-> FALSE, grid |-> grid]
  ELSE Bind(ReadCounter(bits, i), LAMBDA c :
         IF c.panic THEN [panic |-> TRUE, grid |-> grid]
         ELSE Bind(ReadObject(bits, c.i), LAMBDA o :
                IF o.panic THEN [panic |-> TRUE, grid |-> grid]
                ELSE Bind(Emit(grid, o.object, c.counter), LAMBDA g :
                       DecodeLoop(bits, o.i, g, total))))

\* `var l Level`: the zero Level, all that exists when decoding does not complete
NoLevel == [w |-> 0, h |-> 0, px |-> 0, py |-> 0, psprite |-> 0, grid |-> <<>>]

\* a conversion that fills grid2 column by column
Grid2ByColumn(grid, w, h) ==
  [x \in 0..(w - 1) |-> [y \in 0..(h - 1) |-> grid[x * h + y + 1]]]

\* "convert to a 2d array": grid2[x][y] = grid[y*w + x]
Grid2(grid, w, h) == [x \in 0..(w - 1) |-> [y \in 0..(h - 1) |-> grid[y * w + x + 1]]]

decompressLevel(level) ==
  IF Len(level) < 2 THEN [panic |-> TRUE, l |-> NoLevel]
  ELSE
    Bind(LevelBits(level, 3), LAMBDA bits :
      Bind(DecodeLoop(bits, 0, <<>>, level[1] * level[2]), LAMBDA r :
        IF r.panic THEN [panic |-> TRUE, l |-> NoLevel]
        ELSE [panic |-> FALSE,
              l |-> [w |-> level[1], h |-> level[2],
                     px |-> level[Len(level) - 1], py |-> level[Len(level)],
                     psprite |-> PLAYERUP,
                     grid |-> Grid2(r.grid, level[1], level[2])]]))

\* decompressLevel reads nothing but its argument, so the decoding of each
\* buffer of the corpus is computed once and looked up by the calls of Update.
Decoded == [room |-> decompressLevel(BufRoom), row |-> decompressLevel(BufRow),
            one |-> decompressLevel(BufOne), stack |-> decompressLevel(BufStack),
            open |-> decompressLevel(BufOpen), pair |-> decompressLevel(BufPair)]
DecodedLevel(name) ==
  IF name = "given" THEN decompressLevel(corpus.buf) ELSE Decoded[name]

\* ---- handleMove ----
\* curLev.grid[x][y] panics unless 0 <= x < len(grid) and 0 <= y < len(grid[x])
InRange(l, x, y) == x \in DOMAIN l.grid /\ y \in DOMAIN l.grid[x]

\* `moveOnce == EMPTY || moveOnce == GOAL`
CanEnterWall(moveOnce) == moveOnce = EMPTY \/ moveOnce = GOAL \/ moveOnce = WALL
CanEnterBox(moveOnce) == moveOnce = EMPTY \/ moveOnce = GOAL \/ moveOnce = BOX
CanEnter(moveOnce) == moveOnce = EMPTY \/ moveOnce = GOAL

\* "just move the player in the grid"
StepEat(l, dx, dy) ==
  [l EXCEPT !.grid[l.px + dx][l.py + dy] = EMPTY, !.px = l.px + dx, !.py = l.py + dy]
Step(l, dx, dy) == [l EXCEPT !.px = l.px + dx, !.py = l.py + dy]

\* saveTile: what the pushed box leaves behind
SaveTileEmpty(moveOnce) == EMPTY
SaveTile(moveOnce) == IF moveOnce = PLACED_BOX THEN GOAL ELSE EMPTY

\* the two grid writes and the player step of a push; box is BOX or PLACED_BOX
PushLeaveBox(l, dx, dy, saveTile, box) ==
  [l EXCEPT !.grid[l.px + 2 * dx][l.py + 2 * dy] = box,
            !.px = l.px + dx, !.py = l.py + dy]

\* a push that leaves saveTile on the cell the player came from
PushBehind(l, dx, dy, saveTile, box) ==
  [l EXCEPT !.grid[l.px][l.py] = saveTile,
            !.grid[l.px + dx][l.py + dy] = EMPTY,
            !.grid[l.px + 2 * dx][l.py + 2 * dy] = box,
            !.px = l.px + dx, !.py = l.py + dy]

Push(l, dx, dy, saveTile, box) ==
  [l EXCEPT !.grid[l.px + dx][l.py + dy] = saveTile,
            !.grid[l.px + 2 * dx][l.py + 2 * dy] = box,
            !.px = l.px + dx, !.py = l.py + dy]

handleMoveShove(l, dx, dy) ==
  IF ~InRange(l, l.px + dx, l.py + dy) THEN [panic |-> TRUE, l |-> l]
  ELSE
    LET moveOnce == l.grid[l.px + dx][l.py + dy] IN
    IF CanEnter(moveOnce) THEN [panic |-> FALSE, l |-> Step(l, dx, dy)]
    ELSE IF moveOnce = BOX \/ moveOnce = PLACED_BOX THEN
      IF ~InRange(l, l.px + 2 * dx, l.py + 2 * dy) THEN [panic |-> TRUE, l |-> l]
      ELSE
        LET moveTwice == l.grid[l.px + 2 * dx][l.py + 2 * dy] IN
        IF moveTwice = GOAL THEN
          [panic |-> FALSE, l |-> Push(l, dx, dy, SaveTile(moveOnce), PLACED_BOX)]
        ELSE IF moveTwice # WALL THEN
          [panic |-> FALSE, l |-> Push(l, dx, dy, SaveTile(moveOnce), BOX)]
        ELSE [panic |-> FALSE, l |-> l]
    ELSE [panic |-> FALSE, l |-> l]

handleMove(l, dx, dy) ==
  IF ~InRange(l, l.px + dx, l.py + dy) THEN [panic |-> TRUE, l |-> l]
  ELSE
    LET moveOnce == l.grid[l.px + dx][l.py + dy] IN
    IF CanEnter(moveOnce) THEN [panic |-> FALSE, l |-> Step(l, dx, dy)]
    ELSE IF moveOnce = BOX \/ moveOnce = PLACED_BOX THEN
      IF ~InRange(l, l.px + 2 * dx, l.py + 2 * dy) THEN [panic |-> TRUE, l |-> l]
      ELSE
        LET moveTwice == l.grid[l.px + 2 * dx][l.py + 2 * dy] IN
        IF moveTwice = EMPTY THEN
          [panic |-> FALSE, l |-> Push(l, dx, dy, SaveTile(moveOnce), BOX)]
        ELSE IF moveTwice = GOAL THEN
          [panic |-> FALSE, l |-> Push(l, dx, dy, SaveTile(moveOnce), PLACED_BOX)]
        ELSE [panic |-> FALSE, l |-> l]
    ELSE [panic |-> FALSE, l |-> l]

\* ---- nBoxesLeft ----
nBoxesLeftAnyBox(l) ==
  Cardinality({c \in (0..(l.w - 1)) \X (0..(l.h - 1)) :
                 l.grid[c[1]][c[2]] \in {BOX, PLACED_BOX}})

nBoxesLeft(l) ==
  Cardinality({c \in (0..(l.w - 1)) \X (0..(l.h - 1)) : l.grid[c[1]][c[2]] = BOX})

\* ---- Game.Update ----
\* The globals the branches of Update read and write, as one record.
Session == [currentLevelNumber |-> currentLevelNumber, curLev |-> curLev,
            moves |-> moves, panic |-> panicked, trail |-> trail]

\* l := decompressLevel(levels[n]); moves = nil; curLev = l
\* (currentLevelNumber is already assigned when the decoder runs)
LoadLevel(s, n) ==
  LET d == DecodedLevel(levels[n]) IN
  IF d.panic THEN [s EXCEPT !.currentLevelNumber = n, !.panic = TRUE]
  ELSE [s EXCEPT !.currentLevelNumber = n, !.moves = <<>>, !.curLev = d.l,
                 !.trail = <<d.l>>]

\* a reload that forgets `moves = nil`
NextLevelKeep(s) ==
  [LoadLevel(s, IF s.currentLevelNumber + 1 > LEVEL_MAX THEN LEVEL_MAX
                ELSE s.currentLevelNumber + 1) EXCEPT !.moves = s.moves]

NextLevel(s) ==
  LoadLevel(s, IF s.currentLevelNumber + 1 > LEVEL_MAX THEN LEVEL_MAX
               ELSE s.currentLevelNumber + 1)

PreviousLevelStay(s) ==
  IF s.currentLevelNumber - 1 < 0 THEN s ELSE LoadLevel(s, s.currentLevelNumber - 1)

PreviousLevel(s) ==
  LoadLevel(s, IF s.currentLevelNumber - 1 < 0 THEN 0
               ELSE s.currentLevelNumber - 1)

DX(m) == IF m = RIGHT THEN 1 ELSE IF m = LEFT THEN -1 ELSE 0
DY(m) == IF m = UP THEN -1 ELSE IF m = DOWN THEN 1 ELSE 0
Sprite(m) == IF m = RIGHT THEN PLAYERRI ELSE IF m = LEFT THEN PLAYERLE
             ELSE IF m = UP THEN PLAYERUP ELSE PLAYERDN

\* the replay loop of the undo branch: moves[i] for i = from .. len(moves)-2
RECURSIVE ReplayAll(_, _, _)
ReplayAll(r, ms, i) ==
  IF i > Len(ms) \/ r.panic THEN r
  ELSE IF ms[i] \in Directions THEN
    Bind(handleMove([r.l EXCEPT !.psprite = Sprite(ms[i])], DX(ms[i]), DY(ms[i])),
         LAMBDA r2 : ReplayAll(r2, ms, i + 1))
  ELSE ReplayAll(r, ms, i + 1)

RECURSIVE Replay(_, _, _)
Replay(r, ms, i) ==
  IF i > Len(ms) - 1 \/ r.panic THEN r
  ELSE IF ms[i] \in Directions THEN
    Bind(handleMove([r.l EXCEPT !.psprite = Sprite(ms[i])], DX(ms[i]), DY(ms[i])),
         LAMBDA r2 : Replay(r2, ms, i + 1))
  ELSE Replay(r, ms, i + 1)

\* the undo branch without its test len(moves)>0: moves[:len(moves)-1] of an
\* empty slice is a Go slice-bounds panic
UndoNoGuard(s) ==
  LET d == DecodedLevel(levels[s.currentLevelNumber]) IN
  IF d.panic THEN [s EXCEPT !.panic = TRUE]
  ELSE
    Bind(Replay([panic |-> FALSE, l |-> d.l], s.moves, 1), LAMBDA r :
      IF r.panic \/ Len(s.moves) = 0 THEN [s EXCEPT !.curLev = r.l, !.panic = TRUE]
      ELSE [s EXCEPT !.curLev = r.l,
                     !.moves = SubSeq(s.moves, 1, Len(s.moves) - 1),
                     !.trail = SubSeq(s.trail, 1, Len(s.trail) - 1)])

\* an undo that drops the last history entry and leaves the board as it is
UndoKeepBoard(s) ==
  IF Len(s.moves) > 0 THEN
    [s EXCEPT !.moves = SubSeq(s.moves, 1, Len(s.moves) - 1),
              !.trail = SubSeq(s.trail, 1, Len(s.trail) - 1)]
  ELSE s

Undo(s) ==
  IF Len(s.moves) > 0 THEN
    LET d == DecodedLevel(levels[s.currentLevelNumber]) IN
    IF d.panic THEN [s EXCEPT !.panic = TRUE]
    ELSE
      Bind(Replay([panic |-> FALSE, l |-> d.l], s.moves, 1), LAMBDA r :
        IF r.panic THEN [s EXCEPT !.curLev = r.l, !.panic = TRUE]
        ELSE [s EXCEPT !.curLev = r.l,
                       !.moves = SubSeq(s.moves, 1, Len(s.moves) - 1),
                       !.trail = SubSeq(s.trail, 1, Len(s.trail) - 1)])
  ELSE s

\* a move branch that records the move only if the board changed
MoveIfMoved(s, m) ==
  Bind(handleMove([s.curLev EXCEPT !.psprite = Sprite(m)], DX(m), DY(m)), LAMBDA r :
    IF r.l.grid = s.curLev.grid /\ r.l.px = s.curLev.px /\ r.l.py = s.curLev.py
    THEN [s EXCEPT !.curLev = r.l, !.panic = r.panic]
    ELSE [s EXCEPT !.curLev = r.l, !.moves = Append(s.moves, m), !.panic = r.panic,
                   !.trail = Append(s.trail, r.l)])

\* one move branch: psprite, append to moves, handleMove
Move(s, m) ==
  Bind(handleMove([s.curLev EXCEPT !.psprite = Sprite(m)], DX(m), DY(m)), LAMBDA r :
    [s EXCEPT !.curLev = r.l, !.moves = Append(s.moves, m), !.panic = r.panic,
              !.trail = Append(s.trail, r.l)])

\* the closing test of Update
WinCheck(s) ==
  IF nBoxesLeft(s.curLev) = 0 THEN
    LoadLevel(s, IF s.currentLevelNumber + 1 > LEVEL_MAX THEN LEVEL_MAX
                 ELSE s.currentLevelNumber + 1)
  ELSE s

\* a branch of Update runs if its command fired and the process is alive
Branch(s, cmds, c) ==
  IF c \notin cmds \/ s.panic THEN s
  ELSE IF c = "NextLevel" THEN NextLevel(s)
  ELSE IF c = "PreviousLevel" THEN PreviousLevel(s)
  ELSE IF c = "Undo" THEN Undo(s)
  ELSE IF c = "Right" THEN Move(s, RIGHT)
  ELSE IF c = "Left" THEN Move(s, LEFT)
  ELSE IF c = "Up" THEN Move(s, UP)
  ELSE Move(s, DOWN)

\* the seven command tests of Update in source order, then the win check
\* the Left test placed before the Right test
OrderLeftFirst == <<"NextLevel", "PreviousLevel", "Undo", "Left", "Right", "Up", "Down">>

Order == <<"NextLevel", "PreviousLevel", "Undo", "Right", "Left", "Up", "Down">>

RECURSIVE Branches(_, _, _)
Branches(s, cmds, k) ==
  IF k > Len(Order) THEN s
  ELSE Bind(Branch(s, cmds, Order[k]), LAMBDA s2 : Branches(s2, cmds, k + 1))

Tick(s, cmds) ==
  Bind(Branches(s, cmds, 1), LAMBDA s7 : IF s7.panic THEN s7 ELSE WinCheck(s7))

Update(cmds) ==
  /\ ~panicked
  /\ Cardinality(cmds) <= MaxFired
  /\ Len(moves) + Cardinality(cmds \cap MoveCommands) <= MaxMoves
  /\ \E t \in {Tick(Session, cmds)} :
       /\ currentLevelNumber' = t.currentLevelNumber
       /\ curLev' = t.curLev
       /\ moves' = t.moves
       /\ panicked' = t.panic
       /\ trail' = t.trail
  /\ fired' = cmds
  /\ UNCHANGED corpus

\* func init(): curLev = decompressLevel(levels[currentLevelNumber])
Start(c) ==
  /\ corpus = c
  /\ currentLevelNumber = 0
  /\ LET d == Decoded[(IF c.kind = "open" THEN levelsOpen
                        ELSE IF c.kind = "pair" THEN levelsPair ELSE levelsBordered)[0]] IN
       /\ curLev = d.l
       /\ panicked = d.panic
       /\ trail = <<d.l>>
  /\ moves = <<>>
  /\ fired = {}

Init == Start(CorpusBordered)
InitOpen == Start(CorpusOpen)
InitPair == Start(CorpusPair)
InitDecode == \E d \in Descs : Start(CorpusGiven(d))

Next == \E cmds \in SUBSET Commands : Update(cmds)

\* the commands that load a level, up to level MaxLevel
LoadCommands == {"NextLevel", "PreviousLevel", "Undo"}
NextDecode ==
  \E cmds \in SUBSET LoadCommands : Update(cmds) /\ currentLevelNumber' <= MaxLevel

\* levels with a wall border
Spec == Init /\ [][Next]_vars
\* a corpus whose level 0 has no wall border
SpecOpen == InitOpen /\ [][Next]_vars
\* a corpus whose level 0 can be solved and unsolved again within one tick
SpecPair == InitPair /\ [][Next]_vars
\* a corpus whose level 1 is a buffer under test
SpecDecode == InitDecode /\ [][NextDecode]_vars

\* ======================= properties =======================
\* the four (dx, dy) that Update passes to handleMove
Units == {<<1, 0>>, <<-1, 0>>, <<0, -1>>, <<0, 1>>}

\* the direction a move command stands for
CmdDir == [Right |-> RIGHT, Left |-> LEFT, Up |-> UP, Down |-> DOWN]

InGrid(l, x, y) == 0 <= x /\ x < l.w /\ 0 <= y /\ y < l.h
SameBoard(a, b) == a.grid = b.grid /\ a.px = b.px /\ a.py = b.py

\* the level as it stood before and after the last move attempt
LastBefore == trail[Len(trail) - 1]
LastAfter == trail[Len(trail)]
LastDX == IF moves[Len(moves)] = RIGHT THEN 1 ELSE IF moves[Len(moves)] = LEFT THEN -1 ELSE 0
LastDY == IF moves[Len(moves)] = DOWN THEN 1 ELSE IF moves[Len(moves)] = UP THEN -1 ELSE 0
LastTarget == LastBefore.grid[LastBefore.px + LastDX][LastBefore.py + LastDY]
LastBeyond == LastBefore.grid[LastBefore.px + 2 * LastDX][LastBefore.py + 2 * LastDY]

\* C1: an Undo tick in a state with N >= 1 recorded move attempts leaves the
\* level (grid, player position, facing) equal to the level as it stood after
\* the first N-1 attempts, and the history equal to its first N-1 entries.
C1_UndoRestoresPrevious ==
  [][(fired' = {"Undo"} /\ Len(moves) >= 1) =>
       /\ ~panicked'
       /\ curLev' = trail[Len(moves)]
       /\ moves' = SubSeq(moves, 1, Len(moves) - 1)
       /\ currentLevelNumber' = currentLevelNumber]_vars

\* an Undo has just taken back the third of three attempts, of which one was
\* a push and a later one was rejected
C1_Witness ==
  /\ fired = {"Undo"}
  /\ Len(moves) = 2
  /\ trail[1].grid # trail[2].grid
  /\ SameBoard(trail[2], trail[3])
  /\ curLev = trail[3]

\* C2: in every reachable level and for every direction, if the target cell is
\* Box or PlacedBox and the beyond cell is Empty or Goal, handleMove leaves
\* Empty (was Box) or Goal (was PlacedBox) at the target, Box (was Empty) or
\* PlacedBox (was Goal) at the beyond cell, and the player at the target.
C2_PushRule ==
  \A u \in Units :
    LET tx == curLev.px + u[1]
        ty == curLev.py + u[2]
        bx == curLev.px + 2 * u[1]
        by == curLev.py + 2 * u[2]
    IN (/\ InGrid(curLev, tx, ty) /\ InGrid(curLev, bx, by)
        /\ curLev.grid[tx][ty] \in {BOX, PLACED_BOX}
        /\ curLev.grid[bx][by] \in {EMPTY, GOAL})
       => LET r == handleMove(curLev, u[1], u[2]) IN
            /\ ~r.panic
            /\ r.l.grid[tx][ty] = (IF curLev.grid[tx][ty] = BOX THEN EMPTY ELSE GOAL)
            /\ r.l.grid[bx][by] = (IF curLev.grid[bx][by] = EMPTY THEN BOX ELSE PLACED_BOX)
            /\ r.l.px = tx /\ r.l.py = ty

\* the last move pushed a PlacedBox onto an Empty cell: the Goal came back
C2_Witness ==
  /\ Len(moves) >= 1 /\ Len(trail) = Len(moves) + 1
  /\ LastTarget = PLACED_BOX /\ LastBeyond = EMPTY
  /\ LastAfter.grid[LastBefore.px + LastDX][LastBefore.py + LastDY] = GOAL
  /\ LastAfter.grid[LastBefore.px + 2 * LastDX][LastBefore.py + 2 * LastDY] = BOX
  /\ LastAfter.px = LastBefore.px + LastDX /\ LastAfter.py = LastBefore.py + LastDY

\* C3: in every reachable level and for every direction, if the target cell is
\* Wall, or it is Box or PlacedBox and the beyond cell is Wall, Box or
\* PlacedBox, handleMove leaves the grid and the player position as they were.
C3_RejectedMoveNoChange ==
  \A u \in Units :
    LET tx == curLev.px + u[1]
        ty == curLev.py + u[2]
        bx == curLev.px + 2 * u[1]
        by == curLev.py + 2 * u[2]
    IN (/\ InGrid(curLev, tx, ty)
        /\ \/ curLev.grid[tx][ty] = WALL
           \/ /\ curLev.grid[tx][ty] \in {BOX, PLACED_BOX}
              /\ InGrid(curLev, bx, by)
              /\ curLev.grid[bx][by] \in {WALL, BOX, PLACED_BOX})
       => LET r == handleMove(curLev, u[1], u[2]) IN
            ~r.panic /\ SameBoard(r.l, curLev)

\* the last move was a push of a Box against another Box and changed nothing
C3_Witness ==
  /\ Len(moves) >= 1 /\ Len(trail) = Len(moves) + 1
  /\ LastTarget = BOX /\ LastBeyond = BOX
  /\ SameBoard(LastBefore, LastAfter)

\* C4: in every reachable level and for every direction, if the target cell is
\* Empty or Goal, handleMove puts the player on the target cell and leaves
\* every grid cell as it was.
C4_PlainMove ==
  \A u \in Units :
    LET tx == curLev.px + u[1]
        ty == curLev.py + u[2]
    IN (InGrid(curLev, tx, ty) /\ curLev.grid[tx][ty] \in {EMPTY, GOAL})
       => LET r == handleMove(curLev, u[1], u[2]) IN
            /\ ~r.panic
            /\ r.l.px = tx /\ r.l.py = ty
            /\ r.l.grid = curLev.grid

\* the player stepped onto a Goal cell and then off it; the cell is still Goal
C4_Witness ==
  /\ Len(moves) >= 2 /\ Len(trail) = Len(moves) + 1
  /\ LET a == trail[Len(trail) - 2]
         b == trail[Len(trail) - 1]
         c == trail[Len(trail)]
     IN /\ b.grid[b.px][b.py] = GOAL
        /\ <<a.px, a.py>> # <<b.px, b.py>>
        /\ <<c.px, c.py>> # <<b.px, b.py>>
        /\ c.grid = a.grid

\* C5: in every reachable state and for every direction, the move branch of
\* Update yields the old history with that direction appended, whether or not
\* the player moved, and the facing of that direction.
C5_MoveRecorded ==
  \A m \in Directions :
    LET r == Move(Session, m) IN
      /\ r.moves = moves \o <<m>>
      /\ r.curLev.psprite = (IF m = RIGHT THEN PLAYERRI ELSE IF m = LEFT THEN PLAYERLE
                             ELSE IF m = UP THEN PLAYERUP ELSE PLAYERDN)

\* a rejected Right was the last tick: it is the last entry of the history and
\* the player faces right
C5_Witness ==
  /\ fired = {"Right"}
  /\ Len(moves) >= 2 /\ Len(trail) = Len(moves) + 1
  /\ moves[Len(moves)] = RIGHT
  /\ SameBoard(LastBefore, LastAfter)
  /\ curLev.psprite = PLAYERRI

NoBoxCell(l) == \A x \in DOMAIN l.grid : \A y \in DOMAIN l.grid[x] : l.grid[x][y] # BOX
Fresh(n) == decompressLevel(Buffer(levels[n])).l
Clamp(n) == IF n > LEVEL_MAX THEN LEVEL_MAX ELSE IF n < 0 THEN 0 ELSE n

\* C7: the level index is always in 0..LEVEL_MAX, and in every reachable state
\* the NextLevel branch yields index min(index+1, LEVEL_MAX) and the
\* PreviousLevel branch index max(index-1, 0), both with the freshly decoded
\* level of the new index and an empty history.
C7_Navigation ==
  /\ currentLevelNumber \in 0..LEVEL_MAX
  /\ LET n == NextLevel(Session)
         p == PreviousLevel(Session)
     IN /\ n.currentLevelNumber = Clamp(currentLevelNumber + 1)
        /\ n.curLev = Fresh(n.currentLevelNumber)
        /\ n.moves = <<>> /\ ~n.panic
        /\ p.currentLevelNumber = Clamp(currentLevelNumber - 1)
        /\ p.curLev = Fresh(p.currentLevelNumber)
        /\ p.moves = <<>> /\ ~p.panic

\* NextLevel was the last tick and the index is at the upper boundary
C7_Witness ==
  /\ fired = {"NextLevel"}
  /\ currentLevelNumber = LEVEL_MAX
  /\ moves = <<>>
  /\ curLev = Fresh(LEVEL_MAX)

\* C8: an Undo tick in a state with an empty history changes nothing: level,
\* index and history stay as they were.
C8_UndoEmptyNoOp ==
  [][(fired' = {"Undo"} /\ moves = <<>>) =>
       /\ curLev' = curLev
       /\ currentLevelNumber' = currentLevelNumber
       /\ moves' = moves
       /\ ~panicked']_vars

\* an Undo tick has ended with an empty history on a level other than the first
C8_Witness ==
  /\ fired = {"Undo"}
  /\ moves = <<>>
  /\ currentLevelNumber > 0
  /\ ~panicked

\* C9: a tick with one move command whose target cell, or for a push whose
\* beyond cell, lies outside the grid leaves the level as it was and does not
\* end the process.
C9_OutOfGridRejected ==
  [][\A c \in MoveCommands :
       LET tx == curLev.px + DX(CmdDir[c])
           ty == curLev.py + DY(CmdDir[c])
           bx == curLev.px + 2 * DX(CmdDir[c])
           by == curLev.py + 2 * DY(CmdDir[c])
       IN (/\ fired' = {c}
           /\ \/ ~InGrid(curLev, tx, ty)
              \/ /\ curLev.grid[tx][ty] \in {BOX, PLACED_BOX}
                 /\ ~InGrid(curLev, bx, by))
          => (SameBoard(curLev', curLev) /\ ~panicked')]_vars

\* every level of the table decodes, starts the player inside the grid and
\* has Wall on all its outer border cells
BorderedCorpus ==
  \A n \in 0..LEVEL_MAX :
    LET d == DecodedLevel(levels[n]) IN
      /\ ~d.panic
      /\ InGrid(d.l, d.l.px, d.l.py)
      /\ \A x \in 0..(d.l.w - 1) : \A y \in 0..(d.l.h - 1) :
           (x = 0 \/ y = 0 \/ x = d.l.w - 1 \/ y = d.l.h - 1) => d.l.grid[x][y] = WALL

\* C10: with such a level table, in every reachable state the process is
\* alive and the player is inside the grid of the current level.
C10_PlayerInside ==
  BorderedCorpus => (~panicked /\ InGrid(curLev, curLev.px, curLev.py))

\* the player stands next to the left border wall after a Left that the wall
\* rejected
C10_Witness ==
  /\ BorderedCorpus
  /\ Len(moves) >= 1 /\ Len(trail) = Len(moves) + 1
  /\ moves[Len(moves)] = LEFT
  /\ curLev.px = 1
  /\ LastBefore.px = 1
  /\ curLev.grid[0][curLev.py] = WALL

\* the last tick re-decoded a level buffer into the session: a navigation
\* command, an Undo with a non-empty history, or a move that left no Box cell
\* (unprimed variables are those before the tick)
ReloadByNavigation == fired' = {"NextLevel"} \/ fired' = {"PreviousLevel"}
ReloadByUndo == fired' = {"Undo"} /\ Len(moves) >= 1
ReloadByWin ==
  \E c \in MoveCommands :
    fired' = {c} /\ NoBoxCell(handleMove(curLev, DX(CmdDir[c]), DY(CmdDir[c])).l)

\* C11 as stated: after every tick that reloads the level (NextLevel,
\* PreviousLevel, win-advance, the reload of Undo) the move history is empty.
C11_ClearedOnEveryReload ==
  [][((ReloadByNavigation \/ ReloadByUndo \/ ReloadByWin) /\ ~panicked')
       => moves' = <<>>]_vars

\* C11 amended: after a NextLevel, PreviousLevel or win-advance tick the move
\* history is empty; after the reload of an Undo with N >= 1 entries it holds
\* the first N-1 entries, so it is empty only when N = 1.
C11_ClearedOnLevelChange ==
  [][/\ ((ReloadByNavigation \/ ReloadByWin) /\ ~panicked') => moves' = <<>>
     /\ (ReloadByUndo /\ ~panicked') =>
          /\ moves' = SubSeq(moves, 1, Len(moves) - 1)
          /\ (moves' = <<>>) <=> (Len(moves) = 1)]_vars

\* an Undo has reloaded the level and replayed a push; one entry is left
C11_Witness ==
  /\ fired = {"Undo"}
  /\ Len(moves) = 1
  /\ Len(trail) = 2
  /\ curLev.grid # trail[1].grid
  /\ curLev = trail[2]

\* the session after one command test of Update: the branch result if the
\* command fired (and the process is alive), the session as it was otherwise
IfFired(s, cmds, c, F(_)) == IF c \in cmds /\ ~s.panic THEN F(s) ELSE s
MoveRight(s) == Move(s, RIGHT)
MoveLeft(s) == Move(s, LEFT)
MoveUp(s) == Move(s, UP)
MoveDown(s) == Move(s, DOWN)

\* the commands of one tick applied one after the other, each to completion,
\* and the win check applied once to the outcome of the last
InOrder(s, cmds) ==
  Bind(IfFired(s, cmds, "NextLevel", NextLevel), LAMBDA a1 :
  Bind(IfFired(a1, cmds, "PreviousLevel", PreviousLevel), LAMBDA a2 :
  Bind(IfFired(a2, cmds, "Undo", Undo), LAMBDA a3 :
  Bind(IfFired(a3, cmds, "Right", MoveRight), LAMBDA a4 :
  Bind(IfFired(a4, cmds, "Left", MoveLeft), LAMBDA a5 :
  Bind(IfFired(a5, cmds, "Up", MoveUp), LAMBDA a6 :
  Bind(IfFired(a6, cmds, "Down", MoveDown), LAMBDA a7 :
    IF a7.panic THEN a7 ELSE WinCheck(a7))))))))

\* the directions of the fired move commands in the order Right, Left, Up, Down
FiredMoves(cmds) ==
  (IF "Right" \in cmds THEN <<RIGHT>> ELSE <<>>) \o
  (IF "Left" \in cmds THEN <<LEFT>> ELSE <<>>) \o
  (IF "Up" \in cmds THEN <<UP>> ELSE <<>>) \o
  (IF "Down" \in cmds THEN <<DOWN>> ELSE <<>>)

\* C14: the commands fired in one tick are applied in the order NextLevel,
\* PreviousLevel, Undo, Right, Left, Up, Down, each to completion before the
\* next, and the win check runs exactly once, after all of them (also when no
\* command fired); in particular there is no win check between two moves of
\* the same tick: both are recorded one after the other on the same level, and
\* the history is either that or empty after the one closing win check.
C14_TickOrder ==
  [][\E t \in {InOrder(Session, fired')} :
       /\ curLev' = t.curLev
       /\ moves' = t.moves
       /\ currentLevelNumber' = t.currentLevelNumber
       /\ panicked' = t.panic
       /\ (fired' \subseteq MoveCommands /\ ~panicked') =>
            \/ moves' = moves \o FiredMoves(fired')
            \/ /\ moves' = <<>>
               /\ currentLevelNumber' = Clamp(currentLevelNumber + 1)]_vars

\* a tick fired Right and Left together on the level solved by one push to
\* the right: Right pushed the last box home, Left was still applied to the
\* solved board, and the one win check then loaded the next level
C14_Witness ==
  /\ fired = {"Right", "Left"}
  /\ moves = <<>>
  /\ currentLevelNumber = 3
  /\ SameBoard(curLev, Fresh(3))

\* handleMove applied for each entry of a history in order, from level l
RECURSIVE Replayed(_, _)
Replayed(l, ms) ==
  IF ms = <<>> THEN l
  ELSE Bind(handleMove(l, DX(Head(ms)), DY(Head(ms))).l,
            LAMBDA l2 : Replayed(l2, Tail(ms)))

\* C15: in every reachable state the live grid and player position equal the
\* result of decoding the current level's buffer and applying handleMove for
\* each history entry in order, and the facing is the direction of the last
\* history entry, or Up when the history is empty.
C15_ReplayInvariant ==
  ~panicked =>
    /\ SameBoard(curLev, Replayed(Fresh(currentLevelNumber), moves))
    /\ curLev.psprite =
         (IF moves = <<>> THEN PLAYERUP ELSE Sprite(moves[Len(moves)]))

\* three attempts recorded, one of the first two a push and the last one
\* rejected, the player now facing the direction of the last of them
C15_Witness ==
  /\ Len(moves) = 3
  /\ fired \subseteq MoveCommands /\ fired # {}
  /\ \E i \in 1..2 : trail[i + 1].grid # trail[i].grid
  /\ SameBoard(trail[3], trail[4])
  /\ curLev.psprite # PLAYERUP
  /\ curLev.psprite = Sprite(moves[3])

\* the cells of level l that hold one of the tiles ts
CellsOf(l, ts) ==
  {c \in (0..(l.w - 1)) \X (0..(l.h - 1)) : l.grid[c[1]][c[2]] \in ts}

\* level a has as many boxes and as many goals as level b, and the same walls
Conserved(a, b) ==
  /\ Cardinality(CellsOf(a, {BOX, PLACED_BOX})) = Cardinality(CellsOf(b, {BOX, PLACED_BOX}))
  /\ Cardinality(CellsOf(a, {GOAL, PLACED_BOX})) = Cardinality(CellsOf(b, {GOAL, PLACED_BOX}))
  /\ CellsOf(a, {WALL}) = CellsOf(b, {WALL})

\* C16: across move attempts and undos on a level, the number of cells that
\* are Box or PlacedBox, the number of cells that are Goal or PlacedBox and
\* the set of Wall cells equal those of the freshly decoded level; one more
\* move attempt in any direction keeps them.
C16_Conservation ==
  ~panicked =>
    /\ Conserved(curLev, Fresh(currentLevelNumber))
    /\ \A d \in Units : Conserved(handleMove(curLev, d[1], d[2]).l, curLev)

\* a box has been pushed onto or off a goal and another attempt
\* followed: the boxes are not where the fresh level has them
C16_Witness ==
  /\ Len(moves) >= 2
  /\ CellsOf(curLev, {PLACED_BOX}) # CellsOf(Fresh(currentLevelNumber), {PLACED_BOX})
  /\ CellsOf(curLev, {BOX}) # CellsOf(Fresh(currentLevelNumber), {BOX})
  /\ CellsOf(curLev, {BOX}) # {}

\* the tile of level l under its player
Under(l) == l.grid[l.px][l.py]

\* C17: if the decoded start cell of the player is Empty or Goal, the cell
\* under the player is Empty or Goal in every state reached by move and undo
\* commands, and after one more move attempt in any direction: the player
\* never stands on a Wall, Box or PlacedBox cell.
C17_PlayerOnFloor ==
  (~panicked /\ Under(Fresh(currentLevelNumber)) \in {EMPTY, GOAL}) =>
    /\ Under(curLev) \in {EMPTY, GOAL}
    /\ \A d \in Units : Under(handleMove(curLev, d[1], d[2]).l) \in {EMPTY, GOAL}

\* the player stands on a goal cell that a placed box was pushed off by the
\* last attempt
C17_Witness ==
  /\ Len(moves) >= 1 /\ Len(trail) = Len(moves) + 1
  /\ fired \subseteq MoveCommands /\ fired # {}
  /\ LastTarget = PLACED_BOX
  /\ Under(curLev) = GOAL
  /\ (curLev.px # LastBefore.px \/ curLev.py # LastBefore.py)

\* level b differs from level a at most in the cells cs and the player position
SameOutside(a, b, cs) ==
  /\ b.w = a.w /\ b.h = a.h
  /\ DOMAIN b.grid = DOMAIN a.grid
  /\ \A x \in DOMAIN a.grid :
       /\ DOMAIN b.grid[x] = DOMAIN a.grid[x]
       /\ \A y \in DOMAIN a.grid[x] : (<<x, y>> \notin cs) => b.grid[x][y] = a.grid[x][y]

\* C18: one move attempt writes at most the cells target (px+dx, py+dy) and
\* beyond (px+2dx, py+2dy): for every reachable level and every direction,
\* handleMove leaves every other grid cell and the level dimensions as they
\* were, the move branch leaves the current level index as it was, and the
\* player position changes by (0,0) or by exactly (dx,dy).
C18_MoveFrame ==
  ~panicked =>
    \A m \in Directions :
      LET r == handleMove(curLev, DX(m), DY(m)).l
          target == <<curLev.px + DX(m), curLev.py + DY(m)>>
          beyond == <<curLev.px + 2 * DX(m), curLev.py + 2 * DY(m)>>
      IN /\ SameOutside(curLev, r, {target, beyond})
         /\ <<r.px - curLev.px, r.py - curLev.py>> \in {<<0, 0>>, <<DX(m), DY(m)>>}
         /\ Move(Session, m).currentLevelNumber = currentLevelNumber

\* the last attempt was a push on a level with at least two boxes: it wrote
\* both the target and the beyond cell and moved the player by (dx, dy)
C18_Witness ==
  /\ Len(moves) >= 1 /\ Len(trail) = Len(moves) + 1
  /\ fired \subseteq MoveCommands /\ fired # {}
  /\ Cardinality(CellsOf(curLev, {BOX, PLACED_BOX})) >= 2
  /\ LastAfter.grid[LastBefore.px + LastDX][LastBefore.py + LastDY] # LastTarget
  /\ LastAfter.grid[LastBefore.px + 2 * LastDX][LastBefore.py + 2 * LastDY] # LastBeyond
  /\ SameOutside(LastBefore, LastAfter,
                 {<<LastBefore.px + LastDX, LastBefore.py + LastDY>>,
                  <<LastBefore.px + 2 * LastDX, LastBefore.py + 2 * LastDY>>})
  /\ LastAfter.px = LastBefore.px + LastDX /\ LastAfter.py = LastBefore.py + LastDY

\* ---- the decoder against the description a buffer was packed from ----
\* The pairs a buffer's bitstream holds: those of its description, then one
\* (1, Empty) pair for every three of the zero bits that fill the last byte.
StreamRuns(d) ==
  d.runs \o [k \in 1..(PadLen(Len(ElementBits(d.runs))) \div 3) |-> <<1, EMPTY>>]

\* the run lengths of the first k pairs added up
RECURSIVE RunSum(_, _)
RunSum(runs, k) == IF k = 0 THEN 0 ELSE runs[k][1] + RunSum(runs, k - 1)

\* the run-length expansion of the first k pairs
RECURSIVE Expansion(_, _)
Expansion(runs, k) ==
  IF k = 0 THEN <<>>
  ELSE Expansion(runs, k - 1) \o [j \in 1..runs[k][1] |-> runs[k][2]]

\* the numbers k of leading pairs whose lengths sum to exactly w*h
Fits(d) == {k \in 0..Len(StreamRuns(d)) : RunSum(StreamRuns(d), k) = d.w * d.h}
WellFormed(d) == Fits(d) # {}

\* C12: for a buffer [w, h, body..., px, py] whose bitstream is a sequence of
\* (run length, tile) pairs with lengths summing to exactly w*h,
\* decompressLevel returns a grid of w columns by h rows in which
\* grid[p mod w][p div w] is the p-th tile of the run-length expansion, with
\* the player position taken from the last two bytes; bits after the w*h-th
\* tile are ignored.  NextLevel from level 0 makes that level the current one.
C12_DecoderCorrect ==
  LET d == corpus.desc IN
  (corpus.kind = "given" /\ WellFormed(d)) =>
    \E r \in {decompressLevel(corpus.buf)} :
      /\ ~r.panic
      /\ r.l.w = d.w /\ r.l.h = d.h
      /\ DOMAIN r.l.grid = 0..(d.w - 1)
      /\ \A x \in 0..(d.w - 1) : DOMAIN r.l.grid[x] = 0..(d.h - 1)
      /\ \A k \in Fits(d) : \A p \in 0..(d.w * d.h - 1) :
           r.l.grid[p % d.w][p \div d.w] = Expansion(StreamRuns(d), k)[p + 1]
      /\ r.l.px = d.px /\ r.l.py = d.py
      /\ r.l.psprite = PLAYERUP
      /\ (currentLevelNumber = 1 /\ ~panicked) => curLev = r.l

\* NextLevel has loaded a 3 by 2 level packed from three pairs, a box first
\* and four goals last, with zero bits left over in the last byte
C12_Witness ==
  /\ corpus.kind = "given" /\ WellFormed(corpus.desc)
  /\ fired = {"NextLevel"} /\ currentLevelNumber = 1 /\ ~panicked
  /\ corpus.desc.w = 3 /\ corpus.desc.h = 2
  /\ Len(corpus.desc.runs) = 3
  /\ PadLen(Len(ElementBits(corpus.desc.runs))) > 0
  /\ curLev.grid[0][0] = BOX /\ curLev.grid[1][0] = BOX /\ curLev.grid[2][1] = GOAL
  /\ curLev.px = 1 /\ curLev.py = 2

\* a buffer the decoder is to refuse: no cell at all, or a bitstream whose
\* pairs overshoot w*h or end before reaching it
Malformed(d) == d.w * d.h = 0 \/ ~WellFormed(d)

\* C13: decoding a malformed buffer (w*h zero, runs that overshoot w*h, bits
\* that run out first) fails with an explicit error instead of returning a
\* Level, and the previously loaded session is kept: a NextLevel tick onto
\* such a buffer leaves the process alive and the level, its index and the
\* history as they were.
C13_MalformedRejected ==
  [][(corpus.kind = "given" /\ Malformed(corpus.desc)
        /\ currentLevelNumber = 0 /\ fired' = {"NextLevel"}) =>
       /\ ~panicked'
       /\ curLev' = curLev
       /\ currentLevelNumber' = currentLevelNumber
       /\ moves' = moves]_vars

\* C19: the loop of decompressLevel exits normally if and only if, after some
\* run, the number of emitted tiles is exactly w*h (with zero iterations when
\* w*h = 0); an iteration at any bit position that completes consumes at least
\* 3 bits and emits at least one tile, so the loop ends on a finite buffer;
\* when a run overshoots w*h or the bits are exhausted first, the decoder
\* aborts on a read past the end of the bits and returns no Level.
C19_LoopExit ==
  corpus.kind = "given" =>
    \E r \in {decompressLevel(corpus.buf)} : \E bits \in {LevelBits(corpus.buf, 3)} :
      /\ ~r.panic <=> WellFormed(corpus.desc)
      /\ (corpus.desc.w * corpus.desc.h = 0) =>
           ~r.panic /\ \A x \in DOMAIN r.l.grid : DOMAIN r.l.grid[x] = {}
      /\ r.panic => r.l = NoLevel
      /\ \A i \in 0..Len(bits) :
           \E c \in {ReadCounter(bits, i)} :
             /\ c.panic => i + 3 >= Len(bits)
             /\ ~c.panic =>
                  \E o \in {ReadObject(bits, c.i)} :
                    /\ o.panic => c.i + 2 >= Len(bits)
                    /\ ~o.panic => /\ o.i >= i + 3 /\ o.i <= Len(bits)
                                   /\ c.counter >= 1
      /\ panicked => r.panic
      /\ (currentLevelNumber = 1 /\ fired = {"NextLevel"}) => (panicked <=> r.panic)

\* NextLevel met a 2 by 2 buffer whose second run overshoots the 4 cells, and
\* the read past the end of its bits ended the process
C19_Witness ==
  /\ corpus.kind = "given"
  /\ fired = {"NextLevel"} /\ panicked
  /\ corpus.desc.w = 2 /\ corpus.desc.h = 2
  /\ Len(corpus.desc.runs) = 2
  /\ RunSum(corpus.desc.runs, 1) < 4
  /\ RunSum(corpus.desc.runs, 2) > 4

\* the session after the seven command tests of a tick, before the win check
AfterCommands(s, cmds) ==
  Bind(IfFired(s, cmds, "NextLevel", NextLevel), LAMBDA a1 :
  Bind(IfFired(a1, cmds, "PreviousLevel", PreviousLevel), LAMBDA a2 :
  Bind(IfFired(a2, cmds, "Undo", Undo), LAMBDA a3 :
  Bind(IfFired(a3, cmds, "Right", MoveRight), LAMBDA a4 :
  Bind(IfFired(a4, cmds, "Left", MoveLeft), LAMBDA a5 :
  Bind(IfFired(a5, cmds, "Up", MoveUp), LAMBDA a6 :
       IfFired(a6, cmds, "Down", MoveDown)))))))

\* the win check as the claim words it: no Box cell, then the fresh level at
\* min(index+1, LEVEL_MAX) with an empty history; else nothing changes
Won(s) ==
  IF s.panic \/ ~NoBoxCell(s.curLev) THEN s
  ELSE [s EXCEPT !.currentLevelNumber = Clamp(s.currentLevelNumber + 1),
                 !.curLev = Fresh(Clamp(s.currentLevelNumber + 1)),
                 !.moves = <<>>]

\* one move followed at once by the win check
MoveWon(s, m) == IF s.panic THEN s ELSE Bind(Move(s, m), LAMBDA a : Won(a))

\* the moves of a tick, each followed by the win check
RECURSIVE EachMoveWon(_, _)
EachMoveWon(s, ms) ==
  IF ms = <<>> THEN s
  ELSE Bind(MoveWon(s, Head(ms)), LAMBDA a : EachMoveWon(a, Tail(ms)))

\* C6 as stated: after every move, if the grid then holds no Box cell the
\* session becomes the freshly decoded level at min(index+1, LEVEL_MAX) with
\* an empty history, and otherwise the win check changes nothing: a tick of
\* move commands ends where its moves, each followed by the win check, lead.
C6_WinAfterEveryMove ==
  [][(fired' \subseteq MoveCommands /\ fired' # {} /\ ~panicked') =>
       \E t \in {EachMoveWon(Session, FiredMoves(fired'))} :
         /\ currentLevelNumber' = t.currentLevelNumber
         /\ curLev' = t.curLev
         /\ moves' = t.moves]_vars

\* C6 amended: the win check runs once per tick, on the grid left by all the
\* commands fired in that tick (also by none): if that grid holds no Box cell
\* (PlacedBox cells do not count) the session becomes the freshly decoded
\* level at min(index+1, LEVEL_MAX) with an empty history; if a Box cell
\* remains, the index, the level and the history are those the commands left.
\* A move that leaves no Box cell does not advance the level when a later
\* move of the same tick pushes a placed box off its goal.
C6_WinAfterTick ==
  [][~panicked' =>
       \E a \in {AfterCommands(Session, fired')} :
         IF NoBoxCell(a.curLev)
         THEN /\ currentLevelNumber' = Clamp(a.currentLevelNumber + 1)
              /\ curLev' = Fresh(Clamp(a.currentLevelNumber + 1))
              /\ moves' = <<>>
         ELSE /\ currentLevelNumber' = a.currentLevelNumber
              /\ curLev' = a.curLev
              /\ moves' = a.moves]_vars

\* Right and Up fired in one tick on level 0: the push to the right left no
\* Box cell, the push up took the placed box off its goal, and the level was
\* not advanced
C6_Witness ==
  /\ corpus.kind = "pair"
  /\ fired = {"Right", "Up"}
  /\ currentLevelNumber = 0
  /\ moves = <<RIGHT, UP>>
  /\ Len(trail) = 3
  /\ ~NoBoxCell(trail[1])
  /\ NoBoxCell(trail[2])
  /\ ~NoBoxCell(curLev)
  /\ curLev = trail[3]

====
